---- MODULE Spec2Model ----
(***************************************************************************)
(* Model of the ArcSystem A-Frame system (src/src/ArcSystem.js): the       *)
(* pairing of a VR client with a remote controller over an MQTT broker.    *)
(*                                                                         *)
(* The state is the component instance (paircode, mqttClient), the event   *)
(* listeners it has registered on the scene element and on window, the     *)
(* MQTT clients it has opened, and the invocations of its two async        *)
(* procedures, arcsConnectListener and arcsDisconnectListener.  Each       *)
(* `await` of the source is a suspension point: one action issues the      *)
(* broker call and suspends, a later action resumes the invocation when    *)
(* the broker answers (resolves or rejects).  What a step puts out (the    *)
(* error it throws, its broker calls, the events it emits) is recorded in  *)
(* the variable event.                                                     *)
(***************************************************************************)
EXTENDS Naturals, Sequences, FiniteSets

VARIABLES
    paircode,    \* this.paircode: a string, as a sequence of characters
    mqttClient,  \* this.mqttClient: 0 is null, otherwise an index into clients
    listeners,   \* event types that have a listener of this instance registered
    clients,     \* the MQTT clients connectAsync has returned so far
    procs,       \* invocations of arcsConnectListener / arcsDisconnectListener
                 \* that reached an await, in the order they started
    event        \* the last step: what it handled (a trigger, an inbound
                 \* message or a broker answer) and what it put out (the error
                 \* thrown, the broker calls made, the events emitted)

vars == <<paircode, mqttClient, listeners, clients, procs, event>>

\* the instance and its environment, without the record of the last step
state == <<paircode, mqttClient, listeners, clients, procs>>

----------------------------------------------------------------------------
(* Bounds of the exploration *)

\* invocations of the connect / disconnect procedures that reach an await,
\* over the instance's life
MaxProcs == 4

\* the length of the device names the paircode is derived from
MaxLen == 3

----------------------------------------------------------------------------
(* Strings *)

\* toLowerCase on one character of the alphabet used by DeviceNames
Lower(c) ==
    CASE c = "M" -> "m"
      [] c = "D" -> "d"
      [] OTHER -> c

\* String.prototype.toLowerCase
ToLowerCase(s) == [i \in 1..Len(s) |-> Lower(s[i])]

\* String.prototype.replace(from, to) with a string pattern: the first
\* occurrence only
Replace(s, from, to) ==
    LET hits == {i \in 1..Len(s) : s[i] = from}
    IN  IF hits = {} THEN s
        ELSE LET first == CHOOSE i \in hits : \A j \in hits : i <= j
             IN  [i \in 1..Len(s) |-> IF i = first THEN to ELSE s[i]]

\* this.data.app
App == <<"a", "p", "p">>

\* this.data.app + '/' + deviceName.replace(' ', '-').toLowerCase()
Paircode(app, deviceName) ==
    app \o <<"/">> \o ToLowerCase(Replace(deviceName, " ", "-"))

\* ArcTopics of arc-events: one path segment each
STATUS == "status"
DATA == "data"
ADD_EVENT_LISTENER == "add-event-listener"
REMOVE_EVENT_LISTENER == "remove-event-listener"

SubTopics == {STATUS, DATA, ADD_EVENT_LISTENER, REMOVE_EVENT_LISTENER}

\* this.paircode + '/' + ArcTopics.X
Topic(pc, sub) == pc \o <<"/">> \o <<sub>>

\* topic.split('/') followed by topicPath[topicPath.length - 1]
SubTopicOf(topic) ==
    LET seps == {i \in 1..Len(topic) : topic[i] = "/"}
        last == IF seps = {} THEN 0
                ELSE CHOOSE i \in seps : \A j \in seps : j <= i
    IN  SubSeq(topic, last + 1, Len(topic))

----------------------------------------------------------------------------
(* Payloads: JSON text on the wire *)

VrConnected == "{\"type\":\"vr\",\"connected\":true}"
VrDisconnected == "{\"type\":\"vr\",\"connected\":false}"
RemoteConnected == "{\"type\":\"remote\",\"connected\":true}"
RemoteDisconnected == "{\"type\":\"remote\",\"connected\":false}"
KeydownText == "{\"type\":\"keydown\"}"
KeyupText == "{\"type\":\"keyup\"}"
NullText == "null"
Garbage == "not json"

EventTypes == {"keydown", "keyup"}

\* JSON.stringify({ type: 'vr', connected: c })
StringifyStatus(c) == IF c THEN VrConnected ELSE VrDisconnected

\* JSON.stringify({ type: type })
StringifyControl(type) == IF type = "keydown" THEN KeydownText ELSE KeyupText

\* JSON.parse(payload.toString()): ok is FALSE when it throws SyntaxError,
\* null is TRUE when the text is the JSON null; absent properties read as
\* "undefined"
JSONparse(text) ==
    CASE text = VrConnected ->
            [ok |-> TRUE, null |-> FALSE, type |-> "vr", connected |-> "true"]
      [] text = VrDisconnected ->
            [ok |-> TRUE, null |-> FALSE, type |-> "vr", connected |-> "false"]
      [] text = RemoteConnected ->
            [ok |-> TRUE, null |-> FALSE, type |-> "remote", connected |-> "true"]
      [] text = RemoteDisconnected ->
            [ok |-> TRUE, null |-> FALSE, type |-> "remote", connected |-> "false"]
      [] text = KeydownText ->
            [ok |-> TRUE, null |-> FALSE, type |-> "keydown", connected |-> "undefined"]
      [] text = KeyupText ->
            [ok |-> TRUE, null |-> FALSE, type |-> "keyup", connected |-> "undefined"]
      [] text = NullText ->
            [ok |-> TRUE, null |-> TRUE, type |-> "undefined", connected |-> "undefined"]
      [] OTHER ->
            [ok |-> FALSE, null |-> FALSE, type |-> "undefined", connected |-> "undefined"]

\* JavaScript truthiness of the values message.connected takes here
Truthy(v) == v = "true"

----------------------------------------------------------------------------
(* Inputs *)

NoDetail ==
    [hasDeviceName |-> FALSE, deviceName |-> <<>>, hasEvents |-> FALSE, events |-> <<>>]

\* event.detail of an 'arcs-connect' event: no deviceName; a deviceName alone;
\* a deviceName and an events list
ConnectDetails ==
    {NoDetail}
    \cup {[hasDeviceName |-> TRUE, deviceName |-> <<"d">>,
           hasEvents |-> FALSE, events |-> <<>>]}
    \cup {[hasDeviceName |-> TRUE, deviceName |-> <<"M", "y", " ", "D">>,
           hasEvents |-> TRUE, events |-> <<"keydown", "keyup">>]}

\* event.detail of an 'arc-remote-add-listener' / 'arc-remote-remove-listener'
\* event: no events property; an empty list; one type; a type twice
ListenerDetails ==
    {NoDetail}
    \cup {[hasDeviceName |-> FALSE, deviceName |-> <<>>, hasEvents |-> TRUE, events |-> e] :
            e \in {<<>>, <<"keyup">>, <<"keydown", "keydown">>}}

----------------------------------------------------------------------------
(* Records *)

\* a call of the broker client
Call(op, topic, payload, client) ==
    [op |-> op, topic |-> topic, payload |-> payload, client |-> client]

NoCall == Call("none", <<>>, "", 0)

\* the record of a step that handled a trigger or a broker answer
Step(trigger, handled, error, detail, proc, calls) ==
    [trigger |-> trigger, handled |-> handled, error |-> error, detail |-> detail,
     topic |-> <<>>, payload |-> "", proc |-> proc, calls |-> calls,
     emitted |-> 0, dispatched |-> <<>>]

\* the record of a step that handled an inbound message
Message(topic, payload, error, emitted, dispatched) ==
    [trigger |-> "message", handled |-> TRUE, error |-> error, detail |-> NoDetail,
     topic |-> topic, payload |-> payload, proc |-> 0, calls |-> <<>>,
     emitted |-> emitted, dispatched |-> dispatched]

\* an invocation of an async procedure: pending is the call it awaits
Proc(kind, pc, detail, pending) ==
    [kind |-> kind, pc |-> pc, detail |-> detail, pending |-> pending]

ProcIds == 1..MaxProcs

Suspended(p, kind, pc) ==
    /\ p \in 1..Len(procs)
    /\ procs[p].kind = kind
    /\ procs[p].pc = pc

\* the invocation moves on to its next await, or returns
Continue(p, pc, pending) ==
    [procs EXCEPT ![p].pc = pc, ![p].pending = pending]

----------------------------------------------------------------------------
(* The broker client (async-mqtt) *)

\* the broker's acknowledgement of a call reaches a client that has not ended
\* and is connected; any call may also be rejected. connectAsync (no client
\* yet) resolves or rejects as the broker decides
MayResolve(call) ==
    \/ call.client = 0
    \/ /\ ~clients[call.client].ended
       /\ clients[call.client].connected

Subscribed(cs, call) ==
    [cs EXCEPT ![call.client].subs = @ \cup {call.topic}]

Unsubscribed(cs, call) ==
    [cs EXCEPT ![call.client].subs = @ \ {call.topic}]

Ended(cs, call) ==
    [cs EXCEPT ![call.client].ended = TRUE,
               ![call.client].connected = FALSE,
               ![call.client].subs = {}]

----------------------------------------------------------------------------
Init ==
    /\ paircode = <<>>
    /\ mqttClient = 0
    /\ listeners = {"arcs-connect"}
    /\ clients = <<>>
    /\ procs = <<>>
    /\ event = Step("init", TRUE, "none", NoDetail, 0, <<>>)

\* an event of a type this instance has no listener registered for
NotHandled(trigger) ==
    /\ event' = Step(trigger, FALSE, "none", NoDetail, 0, <<>>)
    /\ UNCHANGED state

----------------------------------------------------------------------------
(* activateEvents / deactivateEvents *)

\* activateEvents without its check of the connection
activateEvents_NoConnectionCheck(type) ==
    <<Call("publish", Topic(paircode, ADD_EVENT_LISTENER),
           StringifyControl(type), mqttClient)>>

\* the publish calls of activateEvents(type): none without a connected client
activateEvents(type) ==
    IF mqttClient = 0 \/ clients[mqttClient].connected = FALSE
    THEN <<>>
    ELSE <<Call("publish", Topic(paircode, ADD_EVENT_LISTENER),
                StringifyControl(type), mqttClient)>>

deactivateEvents(type) ==
    IF mqttClient = 0 \/ clients[mqttClient].connected = FALSE
    THEN <<>>
    ELSE <<Call("publish", Topic(paircode, REMOVE_EVENT_LISTENER),
                StringifyControl(type), mqttClient)>>

\* for (const type of event.detail.events) this.activateEvents(type)
RECURSIVE ActivateAll(_)
ActivateAll(events) ==
    IF events = <<>> THEN <<>>
    ELSE activateEvents(Head(events)) \o ActivateAll(Tail(events))

RECURSIVE DeactivateAll(_)
DeactivateAll(events) ==
    IF events = <<>> THEN <<>>
    ELSE deactivateEvents(Head(events)) \o DeactivateAll(Tail(events))

\* the error activateEventsListener throws, or "none"
activateEventsError(detail) ==
    IF ~detail.hasEvents THEN "EventDetailError" ELSE "none"

\* the publish calls activateEventsListener makes
activateEventsListener(detail) ==
    IF activateEventsError(detail) # "none" THEN <<>> ELSE ActivateAll(detail.events)

deactivateEventsError(detail) ==
    IF ~detail.hasEvents THEN "EventDetailError" ELSE "none"

deactivateEventsListener(detail) ==
    IF deactivateEventsError(detail) # "none" THEN <<>> ELSE DeactivateAll(detail.events)

\* el.emit('arc-remote-add-listener', detail)
AddListener(detail) ==
    IF "arc-remote-add-listener" \notin listeners
    THEN NotHandled("arc-remote-add-listener")
    ELSE /\ event' = Step("arc-remote-add-listener", TRUE, activateEventsError(detail),
                          detail, 0, activateEventsListener(detail))
         /\ UNCHANGED state

\* el.emit('arc-remote-remove-listener', detail)
RemoveListener(detail) ==
    IF "arc-remote-remove-listener" \notin listeners
    THEN NotHandled("arc-remote-remove-listener")
    ELSE /\ event' = Step("arc-remote-remove-listener", TRUE,
                          deactivateEventsError(detail), detail, 0,
                          deactivateEventsListener(detail))
         /\ UNCHANGED state

----------------------------------------------------------------------------
(* arcsConnectListener *)

\* arcsConnectListener calling connectAsync before it checks event.detail
arcsConnectListener_OpenBeforeValidation(detail) ==
    /\ listeners' = (listeners \ {"arcs-connect"}) \cup {"beforeunload"}
    /\ IF ~detail.hasDeviceName
       THEN /\ event' = Step("arcs-connect", TRUE, "EventDetailError", detail, 0,
                             <<Call("connect", <<>>, "", 0)>>)
            /\ UNCHANGED <<paircode, procs>>
       ELSE /\ Len(procs) < MaxProcs
            /\ paircode' = Paircode(App, detail.deviceName)
            /\ procs' = Append(procs, Proc("connect", "open", detail,
                                           Call("connect", <<>>, "", 0)))
            /\ event' = Step("arcs-connect", TRUE, "none", detail, Len(procs) + 1,
                             <<Call("connect", <<>>, "", 0)>>)
    /\ UNCHANGED <<mqttClient, clients>>

\* lines 105-114: up to the first suspension, at connectAsync
arcsConnectListener(detail) ==
    /\ listeners' = (listeners \ {"arcs-connect"}) \cup {"beforeunload"}
    /\ IF ~detail.hasDeviceName
       THEN /\ event' = Step("arcs-connect", TRUE, "EventDetailError", detail, 0, <<>>)
            /\ UNCHANGED <<paircode, procs>>
       ELSE /\ Len(procs) < MaxProcs
            /\ paircode' = Paircode(App, detail.deviceName)
            /\ procs' = Append(procs, Proc("connect", "open", detail,
                                           Call("connect", <<>>, "", 0)))
            /\ event' = Step("arcs-connect", TRUE, "none", detail, Len(procs) + 1,
                             <<Call("connect", <<>>, "", 0)>>)
    /\ UNCHANGED <<mqttClient, clients>>

\* el.emit('arcs-connect', detail)
ArcsConnect(detail) ==
    IF "arcs-connect" \notin listeners
    THEN NotHandled("arcs-connect")
    ELSE arcsConnectListener(detail)

\* ConnectOpened subscribing to DATA before STATUS
ConnectOpened_DataFirst(p) ==
    /\ Suspended(p, "connect", "open")
    /\ LET c == Len(clients) + 1
           call == Call("subscribe", Topic(paircode, DATA), "", c)
       IN  /\ clients' = Append(clients, [connected |-> TRUE, ended |-> FALSE, subs |-> {}])
           /\ mqttClient' = c
           /\ procs' = Continue(p, "subStatus", call)
           /\ event' = Step("resume", TRUE, "none", NoDetail, p, <<call>>)
    /\ UNCHANGED <<paircode, listeners>>

\* lines 114-117: connectAsync resolved; subscribe to STATUS
ConnectOpened(p) ==
    /\ Suspended(p, "connect", "open")
    /\ LET c == Len(clients) + 1
           call == Call("subscribe", Topic(paircode, STATUS), "", c)
       IN  /\ clients' = Append(clients, [connected |-> TRUE, ended |-> FALSE, subs |-> {}])
           /\ mqttClient' = c
           /\ procs' = Continue(p, "subStatus", call)
           /\ event' = Step("resume", TRUE, "none", NoDetail, p, <<call>>)
    /\ UNCHANGED <<paircode, listeners>>

\* line 118: STATUS subscribed; subscribe to DATA
ConnectSubscribedStatus(p) ==
    /\ Suspended(p, "connect", "subStatus")
    /\ MayResolve(procs[p].pending)
    /\ LET call == Call("subscribe", Topic(paircode, DATA), "", mqttClient)
       IN  /\ clients' = Subscribed(clients, procs[p].pending)
           /\ procs' = Continue(p, "subData", call)
           /\ event' = Step("resume", TRUE, "none", NoDetail, p, <<call>>)
    /\ UNCHANGED <<paircode, mqttClient, listeners>>

\* lines 119-128: DATA subscribed; publish the connected status
ConnectSubscribedData(p) ==
    /\ Suspended(p, "connect", "subData")
    /\ MayResolve(procs[p].pending)
    /\ LET call == Call("publish", Topic(paircode, STATUS), StringifyStatus(TRUE),
                        mqttClient)
       IN  /\ clients' = Subscribed(clients, procs[p].pending)
           /\ procs' = Continue(p, "pubStatus", call)
           /\ event' = Step("resume", TRUE, "none", NoDetail, p, <<call>>)
    /\ UNCHANGED <<paircode, mqttClient, listeners>>

\* lines 130-132: if (event.detail.events) await this.activateEventsListener(event)
InitialEvents(detail) ==
    IF detail.hasEvents THEN activateEventsListener(detail) ELSE <<>>

\* lines 130-136: status published. With an events list the initial events
\* are activated and the invocation suspends at the await of line 131, on the
\* promise of activateEventsListener (not on a broker call); without one it
\* goes straight on to register the add-listener, remove-listener and
\* arcs-disconnect listeners and returns
ConnectPublishedStatus(p) ==
    /\ Suspended(p, "connect", "pubStatus")
    /\ MayResolve(procs[p].pending)
    /\ IF procs[p].detail.hasEvents
       THEN /\ procs' = Continue(p, "initialEvents", NoCall)
            /\ UNCHANGED listeners
       ELSE /\ procs' = Continue(p, "done", NoCall)
            /\ listeners' = listeners \cup {"arc-remote-add-listener",
                                            "arc-remote-remove-listener",
                                            "arcs-disconnect"}
    /\ event' = Step("resume", TRUE, "none", NoDetail, p,
                     InitialEvents(procs[p].detail))
    /\ UNCHANGED <<paircode, mqttClient, clients>>

\* lines 131-136: the promise of activateEventsListener has resolved, which
\* takes no broker answer; register the add-listener, remove-listener and
\* arcs-disconnect listeners
ConnectActivatedEvents(p) ==
    /\ Suspended(p, "connect", "initialEvents")
    /\ procs' = Continue(p, "done", NoCall)
    /\ listeners' = listeners \cup {"arc-remote-add-listener",
                                    "arc-remote-remove-listener", "arcs-disconnect"}
    /\ event' = Step("resume", TRUE, "none", NoDetail, p, <<>>)
    /\ UNCHANGED <<paircode, mqttClient, clients>>

\* an awaited broker call of connect rejects: the async function rejects
ConnectRejected(p) ==
    /\ p \in 1..Len(procs)
    /\ procs[p].kind = "connect"
    /\ procs[p].pc \in {"open", "subStatus", "subData", "pubStatus"}
    /\ procs' = Continue(p, "failed", NoCall)
    /\ event' = Step("resume", TRUE, "ConnectionError", NoDetail, p, <<>>)
    /\ UNCHANGED <<paircode, mqttClient, listeners, clients>>

----------------------------------------------------------------------------
(* arcsDisconnectListener *)

\* lines 144-147: up to the first suspension, at unsubscribe DATA; with no
\* client yet, this.mqttClient.unsubscribe throws a TypeError
arcsDisconnectListener(trigger) ==
    /\ listeners' = listeners \ {"arcs-disconnect", "beforeunload"}
    /\ IF mqttClient = 0
       THEN /\ event' = Step(trigger, TRUE, "TypeError", NoDetail, 0, <<>>)
            /\ UNCHANGED procs
       ELSE LET call == Call("unsubscribe", Topic(paircode, DATA), "", mqttClient)
            IN  /\ Len(procs) < MaxProcs
                /\ procs' = Append(procs, Proc("disconnect", "unsubData", NoDetail, call))
                /\ event' = Step(trigger, TRUE, "none", NoDetail, Len(procs) + 1,
                                 <<call>>)
    /\ UNCHANGED <<paircode, mqttClient, clients>>

\* el.emit('arcs-disconnect')
ArcsDisconnect ==
    IF "arcs-disconnect" \notin listeners
    THEN NotHandled("arcs-disconnect")
    ELSE arcsDisconnectListener("arcs-disconnect")

\* window 'beforeunload'
BeforeUnload ==
    IF "beforeunload" \notin listeners
    THEN NotHandled("beforeunload")
    ELSE arcsDisconnectListener("beforeunload")

\* line 148: DATA unsubscribed; unsubscribe STATUS
DisconnectUnsubscribedData(p) ==
    /\ Suspended(p, "disconnect", "unsubData")
    /\ MayResolve(procs[p].pending)
    /\ LET call == Call("unsubscribe", Topic(paircode, STATUS), "", mqttClient)
       IN  /\ clients' = Unsubscribed(clients, procs[p].pending)
           /\ procs' = Continue(p, "unsubStatus", call)
           /\ event' = Step("resume", TRUE, "none", NoDetail, p, <<call>>)
    /\ UNCHANGED <<paircode, mqttClient, listeners>>

\* DisconnectUnsubscribedStatus ending the client before the status is published
DisconnectUnsubscribedStatus_EndFirst(p) ==
    /\ Suspended(p, "disconnect", "unsubStatus")
    /\ MayResolve(procs[p].pending)
    /\ LET call == Call("end", <<>>, "", mqttClient)
       IN  /\ clients' = Unsubscribed(clients, procs[p].pending)
           /\ procs' = Continue(p, "end", call)
           /\ event' = Step("resume", TRUE, "none", NoDetail, p, <<call>>)
    /\ UNCHANGED <<paircode, mqttClient, listeners>>

\* lines 150-159: STATUS unsubscribed; publish the disconnected status
DisconnectUnsubscribedStatus(p) ==
    /\ Suspended(p, "disconnect", "unsubStatus")
    /\ MayResolve(procs[p].pending)
    /\ LET call == Call("publish", Topic(paircode, STATUS), StringifyStatus(FALSE),
                        mqttClient)
       IN  /\ clients' = Unsubscribed(clients, procs[p].pending)
           /\ procs' = Continue(p, "pubStatus", call)
           /\ event' = Step("resume", TRUE, "none", NoDetail, p, <<call>>)
    /\ UNCHANGED <<paircode, mqttClient, listeners>>

\* line 161: status published; end the client
DisconnectPublishedStatus(p) ==
    /\ Suspended(p, "disconnect", "pubStatus")
    /\ MayResolve(procs[p].pending)
    /\ LET call == Call("end", <<>>, "", mqttClient)
       IN  /\ procs' = Continue(p, "end", call)
           /\ event' = Step("resume", TRUE, "none", NoDetail, p, <<call>>)
    /\ UNCHANGED <<paircode, mqttClient, listeners, clients>>

\* line 162: the client has ended; listen for 'arcs-connect' again
DisconnectEnded(p) ==
    /\ Suspended(p, "disconnect", "end")
    /\ clients' = Ended(clients, procs[p].pending)
    /\ procs' = Continue(p, "done", NoCall)
    /\ listeners' = listeners \cup {"arcs-connect"}
    /\ event' = Step("resume", TRUE, "none", NoDetail, p, <<>>)
    /\ UNCHANGED <<paircode, mqttClient>>

\* an awaited broker call of disconnect rejects: the async function rejects
DisconnectRejected(p) ==
    /\ p \in 1..Len(procs)
    /\ procs[p].kind = "disconnect"
    /\ procs[p].pc \in {"unsubData", "unsubStatus", "pubStatus", "end"}
    /\ procs' = Continue(p, "failed", NoCall)
    /\ event' = Step("resume", TRUE, "ConnectionError", NoDetail, p, <<>>)
    /\ UNCHANGED <<paircode, mqttClient, listeners, clients>>

----------------------------------------------------------------------------
(* messageListener *)

\* inbound messages: a topic and a payload
InboundMessages ==
    LET pc == Paircode(App, <<"d">>)
    IN  {<<Topic(pc, STATUS), VrConnected>>,
         <<Topic(pc, STATUS), RemoteConnected>>,
         <<Topic(pc, STATUS), RemoteDisconnected>>,
         <<Topic(pc, STATUS), Garbage>>,
         <<Topic(pc, STATUS), NullText>>,
         <<Topic(pc, DATA), KeydownText>>,
         <<Topic(pc, DATA), RemoteConnected>>,
         <<Topic(pc, DATA), Garbage>>,
         <<Topic(pc, ADD_EVENT_LISTENER), RemoteConnected>>,
         <<Topic(pc, ADD_EVENT_LISTENER), KeydownText>>}

\* parsePayload of arc-events: the type of the event it builds, or "throws"
parsePayload(message) ==
    IF ~message.null /\ message.type \in EventTypes THEN message.type ELSE "throws"

\* the case the switch of messageListener takes
Route(topic) ==
    LET subTopic == SubTopicOf(topic)
    IN  IF subTopic = <<STATUS>> THEN STATUS
        ELSE IF subTopic = <<DATA>> THEN DATA
        ELSE "default"

\* messageListener announcing the status of any peer type
EmitsRemoteConnected_AnyType(topic, payload) ==
    LET message == JSONparse(payload)
    IN  IF /\ message.ok
           /\ Route(topic) = STATUS
           /\ ~message.null
           /\ Truthy(message.connected)
        THEN 1 ELSE 0

\* the number of 'arc-remote-connected' events messageListener emits
EmitsRemoteConnected(topic, payload) ==
    LET message == JSONparse(payload)
    IN  IF /\ message.ok
           /\ Route(topic) = STATUS
           /\ ~message.null
           /\ message.type = "remote"
           /\ Truthy(message.connected)
        THEN 1 ELSE 0

\* messageListener passing the messages of every topic to onPeerData
DispatchesEvent_AnyTopic(topic, payload) ==
    LET message == JSONparse(payload)
    IN  IF message.ok /\ parsePayload(message) # "throws"
        THEN <<parsePayload(message)>>
        ELSE <<>>

\* the events onPeerData dispatches on window
DispatchesEvent(topic, payload) ==
    LET message == JSONparse(payload)
    IN  IF message.ok /\ Route(topic) = DATA /\ parsePayload(message) # "throws"
        THEN <<parsePayload(message)>>
        ELSE <<>>

\* the error messageListener rejects with, or "none"
messageListenerError(topic, payload) ==
    LET message == JSONparse(payload)
    IN  IF ~message.ok THEN "SyntaxError"
        ELSE IF Route(topic) = STATUS /\ message.null THEN "TypeError"
        ELSE IF Route(topic) = DATA /\ parsePayload(message) = "throws" THEN "Error"
        ELSE "none"

\* a client that has not ended delivers a message: mqttClient.on('message', ...)
messageListener(topic, payload) ==
    /\ \E c \in 1..Len(clients) : ~clients[c].ended
    /\ event' = Message(topic, payload, messageListenerError(topic, payload),
                        EmitsRemoteConnected(topic, payload),
                        DispatchesEvent(topic, payload))
    /\ UNCHANGED state

----------------------------------------------------------------------------
(* The transport *)

\* the connection of a client drops: client.connected becomes false
ConnectionLost(c) ==
    /\ c \in 1..Len(clients)
    /\ ~clients[c].ended
    /\ clients[c].connected
    /\ clients' = [clients EXCEPT ![c].connected = FALSE]
    /\ event' = Step("offline", TRUE, "none", NoDetail, 0, <<>>)
    /\ UNCHANGED <<paircode, mqttClient, listeners, procs>>

\* the client reconnects by itself: client.connected becomes true again
ConnectionRestored(c) ==
    /\ c \in 1..Len(clients)
    /\ ~clients[c].ended
    /\ ~clients[c].connected
    /\ clients' = [clients EXCEPT ![c].connected = TRUE]
    /\ event' = Step("reconnect", TRUE, "none", NoDetail, 0, <<>>)
    /\ UNCHANGED <<paircode, mqttClient, listeners, procs>>

----------------------------------------------------------------------------
Next ==
    \/ \E d \in ConnectDetails : ArcsConnect(d)
    \/ \E p \in ProcIds : ConnectOpened(p)
    \/ \E p \in ProcIds : ConnectSubscribedStatus(p)
    \/ \E p \in ProcIds : ConnectSubscribedData(p)
    \/ \E p \in ProcIds : ConnectPublishedStatus(p)
    \/ \E p \in ProcIds : ConnectActivatedEvents(p)
    \/ \E p \in ProcIds : ConnectRejected(p)
    \/ ArcsDisconnect
    \/ BeforeUnload
    \/ \E p \in ProcIds : DisconnectUnsubscribedData(p)
    \/ \E p \in ProcIds : DisconnectUnsubscribedStatus(p)
    \/ \E p \in ProcIds : DisconnectPublishedStatus(p)
    \/ \E p \in ProcIds : DisconnectEnded(p)
    \/ \E p \in ProcIds : DisconnectRejected(p)
    \/ \E d \in ListenerDetails : AddListener(d)
    \/ \E d \in ListenerDetails : RemoveListener(d)
    \/ \E m \in InboundMessages : messageListener(m[1], m[2])
    \/ \E c \in ProcIds : ConnectionLost(c)
    \/ \E c \in ProcIds : ConnectionRestored(c)

Spec == Init /\ [][Next]_vars

----------------------------------------------------------------------------
(* The instance with a broker that acknowledges every call: no call is
   rejected and no connection drops, and every answer the broker can give
   is eventually given, as is every continuation that waits for no
   broker.  The triggers (arcs-connect, arcs-disconnect,
   beforeunload) come when the embedding page sends them, under no
   fairness. *)

\* the broker's answer to the call invocation p awaits, or the continuation
\* of p after the await of line 131
BrokerAnswers(p) ==
    \/ ConnectOpened(p)
    \/ ConnectSubscribedStatus(p)
    \/ ConnectSubscribedData(p)
    \/ ConnectPublishedStatus(p)
    \/ ConnectActivatedEvents(p)
    \/ DisconnectUnsubscribedData(p)
    \/ DisconnectUnsubscribedStatus(p)
    \/ DisconnectPublishedStatus(p)
    \/ DisconnectEnded(p)

AnsweringNext ==
    \/ \E d \in ConnectDetails : ArcsConnect(d)
    \/ ArcsDisconnect
    \/ BeforeUnload
    \/ \E p \in ProcIds : BrokerAnswers(p)

AnsweringSpec ==
    /\ Init
    /\ [][AnsweringNext]_vars
    /\ \A p \in ProcIds : WF_vars(BrokerAnswers(p))

----------------------------------------------------------------------------
(* The derivation of the paircode, over all short device names *)

\* the characters of a device name: upper case, lower case, the space
Alphabet == {"M", "y", " ", "D"}

\* event.detail.deviceName: every string of at most MaxLen characters
DeviceNames == UNION {[1..k -> Alphabet] : k \in 0..MaxLen}

\* event.detail of an 'arcs-connect' event that names a device
NamedDevice(name) ==
    [hasDeviceName |-> TRUE, deviceName |-> name, hasEvents |-> FALSE, events |-> <<>>]

\* el.emit('arcs-connect', {deviceName: name}), for any name; the connect may
\* then fail
PaircodeNext ==
    \/ \E name \in DeviceNames : ArcsConnect(NamedDevice(name))
    \/ \E p \in ProcIds : ConnectRejected(p)

PaircodeSpec == Init /\ [][PaircodeNext]_vars

----------------------------------------------------------------------------
(* Phases of the instance *)

Running(p) == procs[p].pc \notin {"done", "failed"}

ConnectsInFlight == {p \in 1..Len(procs) : procs[p].kind = "connect" /\ Running(p)}

DisconnectsInFlight == {p \in 1..Len(procs) : procs[p].kind = "disconnect" /\ Running(p)}

LiveClients == {c \in 1..Len(clients) : ~clients[c].ended}

\* the connect handshake that started last has completed, no disconnect has
\* started since it began, and no connect or disconnect is in progress
Connected ==
    /\ procs # <<>>
    /\ procs[Len(procs)].kind = "connect"
    /\ procs[Len(procs)].pc = "done"
    /\ ConnectsInFlight = {}
    /\ DisconnectsInFlight = {}

\* the instance state a request must leave alone
ControlListeners == {"arc-remote-add-listener", "arc-remote-remove-listener",
                     "arcs-disconnect"}

----------------------------------------------------------------------------
(* C1: at most one session per instance: there is never more than one
   connect procedure in flight and never more than one live broker
   connection, and an arcs-connect event starts a connect only while the
   arcs-connect listener is registered. *)
C1_AtMostOneSession ==
    /\ Cardinality(ConnectsInFlight) <= 1
    /\ Cardinality(LiveClients) <= 1

(* C2: a connect request issued while the instance is Connected is rejected
   and changes nothing: paircode, broker handle, subscriptions, registered
   listeners and procedures are the same after it, and it makes no broker
   call. *)
C2_ConnectWhileConnectedIgnored ==
    [][(Connected /\ event'.trigger = "arcs-connect")
        => (~event'.handled /\ event'.calls = <<>> /\ state' = state)]_vars

\* what a broker call is: its operation, the subtopic addressed, the payload
ShapeOf(call) == <<call.op, SubTopicOf(call.topic), call.payload>>

Shapes(calls) == [i \in 1..Len(calls) |-> ShapeOf(calls[i])]

ExpectedControl(sub, events) ==
    [i \in 1..Len(events) |->
        <<"publish", <<sub>>, IF events[i] = "keydown" THEN KeydownText ELSE KeyupText>>]

ConnectionUp == mqttClient # 0 /\ clients[mqttClient].connected

\* the step just taken by connect invocation p is the next one of the order
ConnectStepInOrder(p) ==
    LET from == IF p > Len(procs) THEN "start" ELSE procs[p].pc
        to == procs'[p].pc
        out == Shapes(event'.calls)
        detail == procs'[p].detail
        resumed == /\ event'.trigger = "resume"
                   /\ event'.proc = p
                   /\ event'.error = "none"
    IN  CASE to = "open" ->
                /\ from = "start"
                /\ out = << <<"connect", <<>>, "">> >>
          [] to = "subStatus" ->
                /\ from = "open" /\ resumed
                /\ out = << <<"subscribe", <<STATUS>>, "">> >>
          [] to = "subData" ->
                /\ from = "subStatus" /\ resumed
                /\ out = << <<"subscribe", <<DATA>>, "">> >>
          [] to = "pubStatus" ->
                /\ from = "subData" /\ resumed
                /\ out = << <<"publish", <<STATUS>>, VrConnected>> >>
          [] to = "initialEvents" ->
                /\ from = "pubStatus" /\ resumed
                /\ detail.hasEvents
                /\ out = IF ConnectionUp
                         THEN ExpectedControl(ADD_EVENT_LISTENER, detail.events)
                         ELSE <<>>
          [] to = "done" ->
                /\ from = IF detail.hasEvents THEN "initialEvents" ELSE "pubStatus"
                /\ resumed
                /\ out = <<>>
                /\ ControlListeners \subseteq listeners'
          [] OTHER -> out = <<>>

(* C3: within one connect the broker steps happen strictly in this order,
   each starting only when the previous one was acknowledged: open the
   transport, subscribe STATUS, subscribe DATA, publish STATUS
   {type:'vr', connected:true}, then the activation of the initial event
   types (only if an events list was supplied): one ADD_EVENT_LISTENER
   publish per type, which activateEvents makes while the client is
   connected; the add-listener, remove-listener and arcs-disconnect
   listeners are registered only in the step that ends this sequence,
   which follows the activation of the initial event types when there
   are any. *)
C3_ConnectOrder ==
    [][/\ \A p \in 1..Len(procs') :
            (procs'[p].kind = "connect" /\ (p > Len(procs) \/ procs'[p] # procs[p]))
                => ConnectStepInOrder(p)
       /\ ~((ControlListeners \cap listeners') \subseteq listeners)
            => \E p \in 1..Len(procs) :
                    /\ procs[p].kind = "connect"
                    /\ procs[p].pc =
                            IF procs[p].detail.hasEvents THEN "initialEvents"
                            ELSE "pubStatus"
                    /\ procs'[p].pc = "done"]_vars

\* a connect with two initial event types has gone through the whole sequence
\* and registered its listeners
C3_Witness ==
    /\ event.trigger = "resume"
    /\ event.proc # 0
    /\ procs[event.proc].kind = "connect"
    /\ procs[event.proc].pc = "done"
    /\ Len(procs[event.proc].detail.events) = 2
    /\ ControlListeners \subseteq listeners

\* the step just taken by disconnect invocation p is the next one of the order
DisconnectStepInOrder(p) ==
    LET from == IF p > Len(procs) THEN "start" ELSE procs[p].pc
        to == procs'[p].pc
        out == Shapes(event'.calls)
        resumed == /\ event'.trigger = "resume"
                   /\ event'.proc = p
                   /\ event'.error = "none"
    IN  CASE to = "unsubData" ->
                /\ from = "start"
                /\ out = << <<"unsubscribe", <<DATA>>, "">> >>
                /\ "arcs-connect" \in listeners' => "arcs-connect" \in listeners
          [] to = "unsubStatus" ->
                /\ from = "unsubData" /\ resumed
                /\ out = << <<"unsubscribe", <<STATUS>>, "">> >>
          [] to = "pubStatus" ->
                /\ from = "unsubStatus" /\ resumed
                /\ out = << <<"publish", <<STATUS>>, VrDisconnected>> >>
          [] to = "end" ->
                /\ from = "pubStatus" /\ resumed
                /\ out = << <<"end", <<>>, "">> >>
          [] to = "done" ->
                /\ from = "end" /\ resumed
                /\ out = <<>>
                /\ "arcs-connect" \in listeners'
          [] OTHER -> out = <<>>

(* C4: within one disconnect the broker steps happen strictly in this
   order: unsubscribe DATA, unsubscribe STATUS, publish STATUS
   {type:'vr', connected:false}, end the client, and only then register the
   arcs-connect listener again; the connected:false status is published
   before the client is ended. *)
C4_DisconnectOrder ==
    [][/\ \A p \in 1..Len(procs') :
            (procs'[p].kind = "disconnect" /\ (p > Len(procs) \/ procs'[p] # procs[p]))
                => DisconnectStepInOrder(p)
       /\ ("arcs-connect" \in listeners' /\ "arcs-connect" \notin listeners)
            => \E p \in 1..Len(procs) :
                    /\ procs[p].kind = "disconnect"
                    /\ procs[p].pc = "end"
                    /\ procs'[p].pc = "done"
       /\ \A c \in 1..Len(clients) :
            (clients'[c].ended /\ ~clients[c].ended)
                => \E p \in 1..Len(procs) :
                        /\ procs[p].kind = "disconnect"
                        /\ procs[p].pc = "end"
                        /\ procs'[p].pc = "done"]_vars

\* a disconnect has run to its end and registered arcs-connect again
C4_Witness ==
    /\ event.trigger = "resume"
    /\ event.proc # 0
    /\ procs[event.proc].kind = "disconnect"
    /\ procs[event.proc].pc = "done"
    /\ "arcs-connect" \in listeners
    /\ clients[mqttClient].ended

(* C5: a connect request whose detail has no deviceName property fails with
   EventDetailError and makes no broker call: it opens no transport,
   subscribes to nothing, publishes nothing and suspends nowhere. *)
C5_ConnectWithoutDeviceName ==
    (event.trigger = "arcs-connect" /\ event.handled /\ ~event.detail.hasDeviceName)
        => /\ event.error = "EventDetailError"
           /\ event.calls = <<>>
           /\ event.proc = 0

\* a connect request without deviceName was handled and threw
C5_Witness ==
    /\ event.trigger = "arcs-connect"
    /\ event.handled
    /\ ~event.detail.hasDeviceName
    /\ event.error = "EventDetailError"

(* C6: the malformed-request error is raised before any side effect: when a
   connect, add-listener or remove-listener request fails validation, the
   registered listeners, the paircode and the broker handle are the same as
   before the request. *)
C6_ValidationBeforeSideEffects ==
    [][event'.error = "EventDetailError" => state' = state]_vars

(* C7: if the transport open, a subscribe or the status publish fails
   during connect, the instance is back at Idle: the arcs-connect listener
   is registered again and no broker connection is retained. *)
C7_FailedConnectBackAtIdle ==
    (/\ event.trigger = "resume"
     /\ event.error = "ConnectionError"
     /\ procs[event.proc].kind = "connect")
        => /\ "arcs-connect" \in listeners
           /\ LiveClients = {}

\* the last step handled an add-listener or remove-listener request
ControlRequest ==
    /\ event.trigger \in {"arc-remote-add-listener", "arc-remote-remove-listener"}
    /\ event.handled

(* C8: an add-listener or remove-listener request whose events field is
   missing or is an empty list fails with EventDetailError and publishes no
   control message. *)
C8_MissingOrEmptyEventsRejected ==
    (ControlRequest /\ (~event.detail.hasEvents \/ event.detail.events = <<>>))
        => /\ event.error = "EventDetailError"
           /\ event.calls = <<>>

\* one publish per listed type, in list order, under the current paircode
ExpectedPublishes(sub, events) ==
    [i \in 1..Len(events) |->
        [op |-> "publish",
         topic |-> paircode \o <<"/", sub>>,
         payload |-> IF events[i] = "keydown" THEN KeydownText ELSE KeyupText,
         client |-> mqttClient]]

(* C9: an activate (deactivate) request carrying n event types publishes
   exactly n ADD_EVENT_LISTENER (REMOVE_EVENT_LISTENER) messages when the
   broker connection is up, one {type} message per listed type in list
   order under the current paircode, duplicates included, and none when
   there is no connection; it raises no error in either case. *)
C9_OnePublishPerType ==
    (ControlRequest /\ event.detail.hasEvents)
        => /\ event.error = "none"
           /\ event.calls =
                IF ~ConnectionUp THEN <<>>
                ELSE IF event.trigger = "arc-remote-add-listener"
                     THEN ExpectedPublishes(ADD_EVENT_LISTENER, event.detail.events)
                     ELSE ExpectedPublishes(REMOVE_EVENT_LISTENER, event.detail.events)

\* a request naming one type twice was handled with the connection up
C9_Witness ==
    /\ event.trigger = "arc-remote-add-listener"
    /\ event.handled
    /\ event.detail.events = <<"keydown", "keydown">>
    /\ ConnectionUp
    /\ Len(event.calls) = 2

(* C10: arc-remote-connected is emitted exactly once for each inbound
   STATUS message with type 'remote' and connected true, and for no other
   inbound message: not for STATUS with type 'vr', not for remote
   connected:false, not for DATA; no other step emits it. *)
C10_RemoteConnectedOncePerStatus ==
    event.emitted =
        IF /\ event.trigger = "message"
           /\ event.topic[Len(event.topic)] = STATUS
           /\ event.payload = RemoteConnected
        THEN 1 ELSE 0

\* the remote's connected status arrived and was announced once
C10_Witness ==
    /\ event.trigger = "message"
    /\ event.payload = RemoteConnected
    /\ event.topic[Len(event.topic)] = STATUS
    /\ event.emitted = 1

(* C11: an inbound DATA message whose payload cannot be decoded is dropped
   without the message handler throwing or rejecting: the handler ends
   without an error and dispatches nothing, and later messages are handled
   as usual. *)
C11_UndecodableDataDropped ==
    (/\ event.trigger = "message"
     /\ event.topic[Len(event.topic)] = DATA
     /\ event.payload = Garbage)
        => /\ event.error = "none"
           /\ event.dispatched = <<>>

\* the last segment of the topic of the message just handled
LastSegment == event.topic[Len(event.topic)]

\* the native events a well-formed data message stands for
RelayedEvents ==
    IF event.payload = KeydownText THEN <<"keydown">>
    ELSE IF event.payload = KeyupText THEN <<"keyup">>
    ELSE <<>>

(* C12: every well-formed inbound message whose last topic segment is DATA
   results in exactly one native event dispatched on window, in the step
   that handles the message (so in arrival order), without an error; a
   message whose last topic segment is neither STATUS nor DATA results in
   no dispatch and no notification; no other step dispatches an event. *)
C12_DataDispatchedOnce ==
    /\ event.dispatched =
            IF event.trigger = "message" /\ LastSegment = DATA
            THEN RelayedEvents ELSE <<>>
    /\ (event.trigger = "message" /\ LastSegment = DATA /\ RelayedEvents # <<>>)
            => event.error = "none"
    /\ (event.trigger = "message" /\ LastSegment \notin {STATUS, DATA})
            => event.emitted = 0

\* a keydown arrived on the DATA topic and was dispatched once
C12_Witness ==
    /\ event.trigger = "message"
    /\ LastSegment = DATA
    /\ event.payload = KeydownText
    /\ event.dispatched = <<"keydown">>

\* the part of the paircode that follows the app name and the delimiter
DevicePart == SubSeq(paircode, Len(App) + 2, Len(paircode))

(* C13: the paircode is a function of the app name and the device name:
   app + '/' + the device name lowercased with its spaces replaced by
   hyphens, so the device-name part of the paircode contains no space and
   no uppercase letter. *)
C13_PaircodeNormalized ==
    (event.trigger = "arcs-connect" /\ event.handled /\ event.detail.hasDeviceName)
        => LET name == event.detail.deviceName
           IN  /\ SubSeq(paircode, 1, Len(App) + 1) = App \o <<"/">>
               /\ Len(DevicePart) = Len(name)
               /\ \A i \in 1..Len(name) :
                    DevicePart[i] = CASE name[i] = " " -> "-"
                                      [] name[i] = "M" -> "m"
                                      [] name[i] = "D" -> "d"
                                      [] OTHER -> name[i]
               /\ \A i \in 1..Len(DevicePart) : DevicePart[i] \notin {" ", "M", "D"}

(* C14: in every reachable state in which the instance is Connected (the
   connect handshake completed, no disconnect started), the beforeunload
   hook that runs disconnect is registered, so that a teardown signal in
   that state starts disconnect. *)
C14_TeardownHookWhileConnected ==
    Connected => "beforeunload" \in listeners

\* the step handles a disconnect trigger: arcsDisconnectListener is invoked
DisconnectStarts ==
    /\ event'.trigger \in {"arcs-disconnect", "beforeunload"}
    /\ event'.handled

(* C16: disconnect runs only from Connected: the disconnect procedure,
   triggered by arcs-disconnect or by beforeunload, never starts while the
   instance is Idle, while a connect is in progress, after a failed connect
   or while another disconnect is in progress. *)
C16_DisconnectOnlyFromConnected ==
    [][DisconnectStarts => Connected]_vars

\* the last step handled a disconnect trigger
DisconnectStarted ==
    /\ event.trigger \in {"arcs-disconnect", "beforeunload"}
    /\ event.handled

\* the arcs-connect listener is registered and no disconnect is in progress
Rearmed ==
    /\ "arcs-connect" \in listeners
    /\ DisconnectsInFlight = {}

(* C15: every disconnect that starts eventually completes and re-arms the
   instance, assuming the broker eventually answers each step: the
   arcs-connect listener is registered again (and a following connect
   request then opens a new broker connection). *)
C15_DisconnectRearms ==
    DisconnectStarted ~> Rearmed

(* C17: an add-listener or remove-listener request never interleaves with a
   connect or a disconnect: no ADD_EVENT_LISTENER or REMOVE_EVENT_LISTENER
   message caused by such a request is published while a connect or a
   disconnect is between its first and its last step, in the first session
   or in any later one. *)
C17_ControlNotDuringTransition ==
    (ControlRequest /\ event.calls # <<>>)
        => /\ ConnectsInFlight = {}
           /\ DisconnectsInFlight = {}

\* the topic lies under the paircode pc
Under(topic, pc) ==
    /\ Len(topic) > Len(pc)
    /\ SubSeq(topic, 1, Len(pc)) = pc
    /\ topic[Len(pc) + 1] = "/"

\* a session is in progress: connecting, Connected or disconnecting
SessionInProgress ==
    \/ ConnectsInFlight # {}
    \/ Connected
    \/ DisconnectsInFlight # {}

(* C18: every subscribe and publish a connect issues uses a topic under the
   paircode derived from the device name of that connect, and every
   unsubscribe and publish of a disconnect a topic under the current
   paircode; the paircode is non-empty and does not change while a
   session's connect, Connected phase or disconnect is in progress. *)
C18_OnePaircodePerSession ==
    [][/\ \A i \in 1..Len(event'.calls) :
            event'.calls[i].op \in {"subscribe", "unsubscribe", "publish"}
                => /\ Under(event'.calls[i].topic, paircode')
                   /\ (event'.proc # 0 /\ procs'[event'.proc].kind = "connect")
                        => Under(event'.calls[i].topic,
                                 Paircode(App, procs'[event'.proc].detail.deviceName))
       /\ SessionInProgress => (paircode # <<>> /\ paircode' = paircode)]_vars

\* the step published this control message
PublishesControl(call) ==
    /\ call.op = "publish"
    /\ SubTopicOf(call.topic) \in {<<ADD_EVENT_LISTENER>>, <<REMOVE_EVENT_LISTENER>>}

(* C19: publishing a control message is a suspension point: a step that
   publishes an ADD_EVENT_LISTENER or REMOVE_EVENT_LISTENER message leaves
   its procedure suspended on that publish, to resume when the broker
   acknowledges it, so that neither a request nor a connect completes with
   a control publish still unacknowledged. *)
C19_ControlPublishAwaited ==
    \A i \in 1..Len(event.calls) :
        PublishesControl(event.calls[i])
            => /\ event.proc # 0
               /\ Running(event.proc)
               /\ procs[event.proc].pending = event.calls[i]

\* the connects that have got as far as publishing connected:true, or that
\* failed somewhere on the way
MayHavePublishedConnected ==
    {p \in 1..Len(procs) :
        /\ procs[p].kind = "connect"
        /\ procs[p].pc \in {"pubStatus", "initialEvents", "done", "failed"}}

(* C20: the STATUS messages of type 'vr' the instance publishes alternate
   connected:true, connected:false, starting with connected:true; in
   particular no connected:false is published unless some connect has
   published a connected:true before it. *)
C20_StatusStartsConnected ==
    (\E i \in 1..Len(event.calls) :
        event.calls[i].op = "publish" /\ event.calls[i].payload = VrDisconnected)
        => MayHavePublishedConnected # {}

====
